---- MODULE Spec2Model ----
(***************************************************************************)
(* The ladder-permutation pipeline of BitBLAS                              *)
(* (bitblas/ops/ladder_permutate/ladder_permutate_impl.py,                 *)
(* select_implementation) as a state machine: one run of the function per  *)
(* behaviour, one action per block of its body.  Index maps are kept as    *)
(* the symbolic rewrite they are in the source (a base layout plus the     *)
(* scaling rewrites applied to it) and evaluated on concrete indices.      *)
(* Beside it: the matmul layout selector (bitblas/ops/impl/matmul_impl.py, *)
(* select_implementation and the graph builders it dispatches to) and      *)
(* Operator._build_runtime_module (bitblas/ops/operator.py) run by several *)
(* operators of one process.                                               *)
(***************************************************************************)
EXTENDS Integers, Sequences, FiniteSets, TLC

VARIABLES
    pc,                 \* the block of select_implementation about to run
    M, N,               \* matrix dimensions
    datatype,           \* logical element datatype
    dequantize_bits,    \* quantization bit-width (-1: none)
    storage_dtype,      \* storage datatype
    propagate_kind,     \* role, "A" or "B"
    transpose_matrix,   \* transpose flag
    transform_kind,     \* requested stage count
    target_instruction,
    l, r,               \* warp tile geometry (r is shrunk by the scaling)
    scaling_factor,
    intra_index_map,    \* the (possibly rewritten) intra-warp IndexMap
    ladder_stage3_map,  \* the (possibly rewritten) ladder-stage-3 IndexMap
    ladder_stage3_map_inverse,  \* its inverse over the tile, once computed
    args,               \* the list of tensors built so far
    result,             \* "none" | "IRModule"
    error,              \* "none" | the exception that ended the run
    s1, s2,             \* the two factors of a repeated rewrite (SpecAdapter)
    call,               \* the arguments of matmul_impl.select_implementation
    func,               \* the graph it built
    mpc,                \* the function of matmul_impl.py about to run
    mm_error,           \* "none" | the exception that ended the matmul call
    operators,          \* the fields of each Operator instance
    frames,             \* each operator's call of _build_runtime_module
    registry            \* the operator whose closure the process-wide name
                        \* "tvm_callback_cuda_postproc" is bound to (0: none)

vars == <<pc, M, N, datatype, dequantize_bits, storage_dtype, propagate_kind,
          transpose_matrix, transform_kind, target_instruction, l, r, scaling_factor,
          intra_index_map, ladder_stage3_map, ladder_stage3_map_inverse,
          args, result, error, s1, s2,
          call, func, mpc, mm_error, operators, frames, registry>>

matmul_vars == <<call, func, mpc, mm_error>>
operator_vars == <<operators, frames, registry>>

inputs == <<M, N, datatype, dequantize_bits, storage_dtype, propagate_kind,
            transpose_matrix, transform_kind, target_instruction>>

pipeline_vars == <<pc, inputs, l, r, scaling_factor, intra_index_map,
                   ladder_stage3_map, ladder_stage3_map_inverse, args, result,
                   error, s1, s2>>

----------------------------------------------------------------------------
(* Bounds of the model. *)

\* transform_kind ranges over -1 .. MaxKind
MaxKind == 4
\* the factors of the repeated rewrite range over 1 .. MaxFactor
MaxFactor == 4
\* the last index fed to a repeatedly rewritten map ranges over 0 .. MaxLast
MaxLast == 5
\* the Operator instances of the process are 1 .. NumOperators
NumOperators == 2

----------------------------------------------------------------------------
(* Inputs. *)

HalfClass == {"float16", "bfloat16"}
ByteClass == {"int8", "e4m3_float8", "e5m2_float8"}
Datatypes == HalfClass \cup ByteClass
\* one tag outside the supported set
DatatypeTags == Datatypes \cup {"float64"}
StorageDtypes == {"float16", "int8", "uint8", "int32", "uint32"}
Roles == {"A", "B"}
\* (M, N) pairs: the end-to-end example, and a small matrix whose sides are
\* not multiples of the tile sides
Dims == {<<256, 256>>, <<24, 48>>}
QuantBits == {-1, 0, 1, 2, 3, 4, 8, 12, 16}
Kinds == -1 .. MaxKind
TargetInstructions == {"nvidia-mma", "amd-mfma"}

\* DataType(t).bits
Bits(t) ==
    CASE t \in {"float16", "bfloat16"} -> 16
      [] t \in {"int8", "uint8", "e4m3_float8", "e5m2_float8"} -> 8
      [] t \in {"int32", "uint32"} -> 32
      [] t = "float64" -> 64

----------------------------------------------------------------------------
(* The layout table (bitblas.gpu.matmul_analysis): the ldmatrix and mma     *)
(* fragment layouts, each a bijection of its tile.                          *)

ldmatrix_32x8_to_shared_16x16_layout(thread_id, local_id) ==
    <<thread_id % 16, 8 * (thread_id \div 16) + (local_id % 8)>>

ldmatrix_trans_32x8_to_shared_16x16_layout(thread_id, local_id) ==
    <<8 * (thread_id \div 16) + (thread_id % 8),
      8 * ((thread_id % 16) \div 8) + (local_id % 8)>>

ldmatrix_32x16_to_shared_16x32_layout_a(thread_id, local_id) ==
    <<thread_id % 16, 16 * (thread_id \div 16) + (local_id % 16)>>

ldmatrix_32x16_to_shared_16x32_layout_b(thread_id, local_id) ==
    <<8 * (thread_id \div 16) + (thread_id % 8),
      16 * ((thread_id % 16) \div 8) + (local_id % 16)>>

shared_32x8_to_mma_32x8_layout(i, j) ==
    <<(i % 8) * 4 + (j \div 2), (i \div 8) * 2 + (j % 2)>>

shared_32x16_to_mma_32x16_layout(i, j) ==
    <<(i % 8) * 4 + (j \div 4), (i \div 8) * 4 + (j % 4)>>

\* The base layouts by name, on a tile-local pair idx = <<i, j>>.
BaseMap(name, idx) ==
    LET i == idx[1]
        j == idx[2]
    IN  CASE name = "ldmatrix_16x16" ->
               ldmatrix_32x8_to_shared_16x16_layout(i * 2 + (j \div 8), j % 8)
          [] name = "ldmatrix_trans_16x16" ->
               ldmatrix_trans_32x8_to_shared_16x16_layout(i * 2 + (j \div 8), j % 8)
          [] name = "ldmatrix_16x32_a" ->
               ldmatrix_32x16_to_shared_16x32_layout_a(i * 2 + (j \div 16), j % 16)
          [] name = "ldmatrix_16x32_b" ->
               ldmatrix_32x16_to_shared_16x32_layout_b(i * 2 + (j \div 16), j % 16)
          [] name = "stage3_16x16" ->
               LET t == shared_32x8_to_mma_32x8_layout(i * 2 + (j \div 8), j % 8)
               IN  <<t[1] \div 2, (t[1] % 2) * 8 + t[2]>>
          [] name = "stage3_16x32" ->
               LET t == shared_32x16_to_mma_32x16_layout(i * 2 + (j \div 16), j % 16)
               IN  <<t[1] \div 2, (t[1] % 2) * 16 + t[2]>>

NoMap == [name |-> "none", scales |-> <<>>]

\* get_propagate_map(trans, dtype, matrix_name): the forward map, or NoMap
\* when the combination is not in the table.
get_propagate_map(trans, dtype, matrix_name) ==
    IF dtype \in HalfClass
    THEN [name |-> IF trans THEN "ldmatrix_trans_16x16" ELSE "ldmatrix_16x16",
          scales |-> <<>>]
    ELSE IF dtype \in ByteClass /\ matrix_name = "A" /\ ~trans
    THEN [name |-> "ldmatrix_16x32_a", scales |-> <<>>]
    ELSE IF dtype \in ByteClass /\ matrix_name = "B" /\ trans
    THEN [name |-> "ldmatrix_16x32_b", scales |-> <<>>]
    ELSE NoMap

\* get_ladder_stage3_map(dtype)
get_ladder_stage3_map(dtype) ==
    IF dtype \in HalfClass THEN [name |-> "stage3_16x16", scales |-> <<>>]
    ELSE IF dtype \in ByteClass THEN [name |-> "stage3_16x32", scales |-> <<>>]
    ELSE NoMap

----------------------------------------------------------------------------
(* IndexMap: a base layout and the scaling rewrites applied to it, the      *)
(* innermost first.                                                         *)

\* IndexMap.map_indices on a pair
RECURSIVE MapIndices(_, _)
MapIndices(m, idx) ==
    IF m.scales = <<>>
    THEN BaseMap(m.name, idx)
    ELSE LET n     == Len(m.scales)
             s     == m.scales[n]
             inner == [m EXCEPT !.scales = SubSeq(m.scales, 1, n - 1)]
             y     == MapIndices(inner, <<idx[1], idx[2] * s>>)
         IN  <<y[1], y[2] \div s>>

\* ScalingRewrite that starts again from the base layout, dropping a
\* rewrite already applied
ScalingRewrite_from_base(m, s) == [m EXCEPT !.scales = <<s>>]

\* The rewrite of lines 42-52 and 54-64: multiply the last initial index by
\* the factor, map, floor-divide the last final index by the factor.
ScalingRewrite(m, s) == [m EXCEPT !.scales = Append(m.scales, s)]

Tile(rows, cols) == (0 .. rows - 1) \X (0 .. cols - 1)


\* Row-major position of a tile-local pair, from 1, and the pair at a position.
Pos(cols, y) == y[1] * cols + y[2] + 1
Pt(cols, n) == <<(n - 1) \div cols, (n - 1) % cols>>

\* Whether m maps the tile one-to-one onto itself.
IsBijection(m, rows, cols) ==
    {MapIndices(m, p) : p \in Tile(rows, cols)} = Tile(rows, cols)

\* IndexMap.inverse([rows, cols]) of a map that is a bijection of the tile:
\* the table whose entry at Pos(map(p)) is p, for the positions lo .. hi of p.
RECURSIVE InverseFill(_, _, _, _)
InverseFill(m, cols, lo, hi) ==
    IF lo = hi
    THEN Pos(cols, MapIndices(m, Pt(cols, lo))) :> Pt(cols, lo)
    ELSE LET mid == (lo + hi) \div 2
         IN  InverseFill(m, cols, lo, mid) @@ InverseFill(m, cols, mid + 1, hi)

Inverse(m, rows, cols) == InverseFill(m, cols, 1, rows * cols)

\* The second component of get_propagate_map's result: the inverse of the
\* looked-up map over the tile of the datatype's class, [16, 16] for the
\* half class and [16, 32] otherwise; at[Pos(cols, y)] is the pair sent to y.
NoInverse == [cols |-> 0, at |-> <<>>]

get_propagate_map_inversed(trans, dtype, matrix_name) ==
    LET m == get_propagate_map(trans, dtype, matrix_name)
        cols == IF dtype \in HalfClass THEN 16 ELSE 32
    IN  IF m = NoMap THEN NoInverse ELSE [cols |-> cols, at |-> Inverse(m, 16, cols)]

----------------------------------------------------------------------------
(* Tensors: te.placeholder and te.compute.  A computed tensor keeps the     *)
(* tensor it reads (arg) and what its fcompute closes over: the tile sides  *)
(* and the forward map (the inverse table of stage 3 stays in               *)
(* ladder_stage3_map_inverse).                                              *)

Placeholder(shape, name) ==
    [name |-> name, shape |-> shape, arg |-> <<>>, tl |-> 0, tr |-> 0, map |-> NoMap]

Compute(shape, name, arg, tl, tr, map) ==
    [name |-> name, shape |-> shape, arg |-> <<arg>>, tl |-> tl, tr |-> tr, map |-> map]

\* Fcompute with stage 3 reading through the forward ladder-stage-3 map
Fcompute_forward(t, idx) ==
    CASE t.name = "inter_warp_permutate" ->
           <<idx[1] * t.tl + idx[3], idx[2] * t.tr + idx[4]>>
      [] t.name = "intra_warp_permutate" ->
           <<idx[1], idx[2]>> \o MapIndices(t.map, <<idx[3], idx[4]>>)
      [] t.name = "permutate" ->
           <<idx[1], idx[2]>> \o MapIndices(t.map, <<idx[3], idx[4]>>)

\* The index of t.arg that element idx of the computed tensor t reads.
Fcompute(t, idx) ==
    CASE t.name = "inter_warp_permutate" ->
           <<idx[1] * t.tl + idx[3], idx[2] * t.tr + idx[4]>>
      [] t.name = "intra_warp_permutate" ->
           <<idx[1], idx[2]>> \o MapIndices(t.map, <<idx[3], idx[4]>>)
      [] t.name = "permutate" ->
           <<idx[1], idx[2]>> \o ladder_stage3_map_inverse[Pos(t.tr, <<idx[3], idx[4]>>)]

\* The placeholder element that element idx of tensor t is, through the
\* chain of computed tensors down to the placeholder.
RECURSIVE Eval(_, _)
Eval(t, idx) ==
    IF t.arg = <<>> THEN <<t.name, idx>> ELSE Eval(t.arg[1], Fcompute(t, idx))

\* StageShape with the column count left unscaled
StageShape_unscaled == <<M \div l, N \div r, l, r>>

\* lines 74, 90, 108: the shape of every stage's output
StageShape == <<M \div l, (N \div scaling_factor) \div r, l, r>>

----------------------------------------------------------------------------
(* The values the parts of the state take while their program is not run. *)

NoCall ==
    [M |-> 0, N |-> 0, K |-> 0, in_dtype |-> "none", cast |-> FALSE,
     with_bias |-> FALSE, layout |-> "none", propagate_a |-> FALSE,
     propagate_b |-> FALSE]

NoFunc ==
    [graph |-> "none", A |-> <<>>, B |-> <<>>, l |-> 0, r |-> 0,
     inversed_a |-> NoInverse, inversed_b |-> NoInverse, args |-> <<>>, attrs |-> {}]

PipelineIdle ==
    /\ pc = "idle"
    /\ M = 0 /\ N = 0
    /\ datatype = "none"
    /\ dequantize_bits = -1
    /\ storage_dtype = "none"
    /\ propagate_kind = "none"
    /\ transpose_matrix = FALSE
    /\ transform_kind = 0
    /\ target_instruction = "none"
    /\ l = 0 /\ r = 0
    /\ scaling_factor = 0
    /\ intra_index_map = NoMap
    /\ ladder_stage3_map = NoMap
    /\ ladder_stage3_map_inverse = <<>>
    /\ args = <<>>
    /\ result = "none"
    /\ error = "none"
    /\ s1 = 0 /\ s2 = 0

MatmulIdle ==
    /\ call = NoCall
    /\ func = NoFunc
    /\ mpc = "idle"
    /\ mm_error = "none"

OperatorIdle ==
    /\ operators = <<>>
    /\ frames = <<>>
    /\ registry = 0

----------------------------------------------------------------------------
(* select_implementation, block by block. *)

Init ==
    /\ pc = "start"
    /\ \E d \in Dims : M = d[1] /\ N = d[2]
    /\ datatype \in DatatypeTags
    /\ dequantize_bits \in QuantBits
    /\ storage_dtype \in StorageDtypes
    /\ propagate_kind \in Roles
    /\ transpose_matrix \in BOOLEAN
    /\ transform_kind \in Kinds
    /\ target_instruction \in TargetInstructions
    /\ l = 0 /\ r = 0
    /\ scaling_factor = 0
    /\ intra_index_map = NoMap
    /\ ladder_stage3_map = NoMap
    /\ ladder_stage3_map_inverse = <<>>
    /\ args = <<>>
    /\ result = "none"
    /\ error = "none"
    /\ s1 = 0 /\ s2 = 0
    /\ MatmulIdle
    /\ OperatorIdle

\* TileGeometry with the byte class cut down to "int8"
TileGeometry_int8_only(dtype) ==
    IF dtype = "int8" THEN <<16, 32>> ELSE <<16, 16>>

\* lines 28-30
TileGeometry(dtype) ==
    IF dtype \in {"int8", "e4m3_float8", "e5m2_float8"} THEN <<16, 32>> ELSE <<16, 16>>

\* lines 23-30
SelectGeometry ==
    /\ pc = "start"
    /\ IF target_instruction # "nvidia-mma"
       THEN pc' = "done" /\ error' = "ValueError" /\ UNCHANGED <<l, r>>
       ELSE /\ l' = TileGeometry(datatype)[1]
            /\ r' = TileGeometry(datatype)[2]
            /\ pc' = "maps"
            /\ UNCHANGED error
    /\ UNCHANGED <<matmul_vars, operator_vars, inputs, scaling_factor, intra_index_map, ladder_stage3_map,
                   ladder_stage3_map_inverse, args, result, s1, s2>>

\* lines 31-34: a lookup miss raises and ends the run
FetchMaps ==
    /\ pc = "maps"
    /\ LET im == get_propagate_map(transpose_matrix, datatype, propagate_kind)
           lm == get_ladder_stage3_map(datatype)
       IN  IF im = NoMap \/ lm = NoMap
           THEN /\ error' = "UnsupportedLayout"
                /\ pc' = "done"
                /\ UNCHANGED <<intra_index_map, ladder_stage3_map>>
           ELSE /\ intra_index_map' = im
                /\ ladder_stage3_map' = lm
                /\ pc' = "scaling"
                /\ UNCHANGED error
    /\ UNCHANGED <<matmul_vars, operator_vars, inputs, l, r, scaling_factor, ladder_stage3_map_inverse,
                   args, result, s1, s2>>

\* ScalingFactor without the final division by the native width
ScalingFactor_undivided(target_bits, bits, storage_bits) ==
    (target_bits \div bits) * storage_bits

\* lines 39-40
ScalingFactor(target_bits, bits, storage_bits) ==
    ((target_bits \div bits) * storage_bits) \div target_bits

\* line 38
QuantActive == dequantize_bits > 0 /\ dequantize_bits < Bits(datatype)

\* lines 36-64: r // scaling_factor divides by zero when the factor is 0
ComputeScaling ==
    /\ pc = "scaling"
    /\ IF QuantActive
       THEN LET sf == ScalingFactor(Bits(datatype), dequantize_bits, Bits(storage_dtype))
            IN  /\ scaling_factor' = sf
                /\ IF sf = 0
                   THEN /\ error' = "ZeroDivisionError"
                        /\ pc' = "done"
                        /\ UNCHANGED <<r, intra_index_map, ladder_stage3_map>>
                   ELSE /\ r' = r \div sf
                        /\ intra_index_map' = ScalingRewrite(intra_index_map, sf)
                        /\ ladder_stage3_map' = ScalingRewrite(ladder_stage3_map, sf)
                        /\ pc' = "placeholder"
                        /\ UNCHANGED error
       ELSE /\ scaling_factor' = 1
            /\ pc' = "placeholder"
            /\ UNCHANGED <<r, intra_index_map, ladder_stage3_map, error>>
    /\ UNCHANGED <<matmul_vars, operator_vars, inputs, l, ladder_stage3_map_inverse, args, result, s1, s2>>

\* lines 66-67
MakePlaceholder ==
    /\ pc = "placeholder"
    /\ args' = <<Placeholder(<<M, N \div scaling_factor>>, "inp")>>
    /\ pc' = "assert"
    /\ UNCHANGED <<matmul_vars, operator_vars, inputs, l, r, scaling_factor, intra_index_map, ladder_stage3_map,
                   ladder_stage3_map_inverse, result, error, s1, s2>>

\* KindAccepted as "not negative"
KindAccepted_nonnegative(k) == k >= 0

\* line 69: the condition of the assertion
KindAccepted(k) == k # 0

\* line 69
AssertKind ==
    /\ pc = "assert"
    /\ IF KindAccepted(transform_kind)
       THEN pc' = "stage1" /\ UNCHANGED error
       ELSE pc' = "done" /\ error' = "AssertionError"
    /\ UNCHANGED <<matmul_vars, operator_vars, inputs, l, r, scaling_factor, intra_index_map, ladder_stage3_map,
                   ladder_stage3_map_inverse, args, result, s1, s2>>

\* lines 70-78: (N // scaling_factor) // r divides by zero when r is 0
Stage1 ==
    /\ pc = "stage1"
    /\ IF transform_kind >= 1
       THEN IF r = 0
            THEN pc' = "done" /\ error' = "ZeroDivisionError" /\ UNCHANGED args
            ELSE /\ args' = Append(args, Compute(StageShape, "inter_warp_permutate",
                                                 args[Len(args)], l, r, NoMap))
                 /\ pc' = "stage2"
                 /\ UNCHANGED error
       ELSE pc' = "stage2" /\ UNCHANGED <<args, error>>
    /\ UNCHANGED <<matmul_vars, operator_vars, inputs, l, r, scaling_factor, intra_index_map, ladder_stage3_map,
                   ladder_stage3_map_inverse, result, s1, s2>>

\* lines 79-94
Stage2 ==
    /\ pc = "stage2"
    /\ IF transform_kind >= 2
       THEN args' = Append(args, Compute(StageShape, "intra_warp_permutate",
                                         args[Len(args)], l, r, intra_index_map))
       ELSE UNCHANGED args
    /\ pc' = "stage3"
    /\ UNCHANGED <<matmul_vars, operator_vars, inputs, l, r, scaling_factor, intra_index_map, ladder_stage3_map,
                   ladder_stage3_map_inverse, result, error, s1, s2>>

\* lines 95-112: IndexMap.inverse raises for a map that is no bijection of
\* the tile
Stage3 ==
    /\ pc = "stage3"
    /\ IF transform_kind >= 3
       THEN IF IsBijection(ladder_stage3_map, l, r)
            THEN LET inv == Inverse(ladder_stage3_map, l, r)
                 IN  /\ ladder_stage3_map_inverse' = inv
                     /\ args' = Append(args, Compute(StageShape, "permutate",
                                                     args[Len(args)], l, r,
                                                     ladder_stage3_map))
                     /\ pc' = "truncate"
                     /\ UNCHANGED error
            ELSE /\ pc' = "done"
                 /\ error' = "TVMError"
                 /\ UNCHANGED <<ladder_stage3_map_inverse, args>>
       ELSE /\ pc' = "truncate"
            /\ UNCHANGED <<ladder_stage3_map_inverse, args, error>>
    /\ UNCHANGED <<matmul_vars, operator_vars, inputs, l, r, scaling_factor, intra_index_map, ladder_stage3_map,
                   result, s1, s2>>

\* lines 113-117
Finish ==
    /\ pc = "truncate"
    /\ args' = <<args[1], args[Len(args)]>>
    /\ result' = "IRModule"
    /\ pc' = "done"
    /\ UNCHANGED <<matmul_vars, operator_vars, inputs, l, r, scaling_factor, intra_index_map, ladder_stage3_map,
                   ladder_stage3_map_inverse, error, s1, s2>>

\* create_prim_func is taken to accept the argument list it is handed, also
\* [inp, inp] when no stage was built.
Next ==
    \/ SelectGeometry
    \/ FetchMaps
    \/ ComputeScaling
    \/ MakePlaceholder
    \/ AssertKind
    \/ Stage1
    \/ Stage2
    \/ Stage3
    \/ Finish

Spec == Init /\ [][Next]_vars


----------------------------------------------------------------------------
(* The rewrite of lines 42-52 applied twice, with factors s1 then s2, beside *)
(* the same rewrite applied once with factor s1 * s2.  intra_index_map      *)
(* holds the map rewritten step by step, ladder_stage3_map the map          *)
(* rewritten once.                                                          *)

BaseMaps ==
    ({get_propagate_map(t, d, k) : t \in BOOLEAN, d \in Datatypes, k \in Roles}
        \cup {get_ladder_stage3_map(d) : d \in Datatypes}) \ {NoMap}

InitAdapter ==
    /\ pc = "rewrite_s1"
    /\ intra_index_map \in BaseMaps
    /\ ladder_stage3_map = intra_index_map
    /\ s1 \in 1 .. MaxFactor
    /\ s2 \in 1 .. MaxFactor
    /\ M = 16 /\ N = 16
    /\ datatype = "float16"
    /\ dequantize_bits = -1
    /\ storage_dtype = "float16"
    /\ propagate_kind = "B"
    /\ transpose_matrix = FALSE
    /\ transform_kind = 0
    /\ target_instruction = "nvidia-mma"
    /\ l = 16 /\ r = 16
    /\ scaling_factor = 1
    /\ ladder_stage3_map_inverse = <<>>
    /\ args = <<>>
    /\ result = "none"
    /\ error = "none"
    /\ MatmulIdle
    /\ OperatorIdle

RewriteFirst ==
    /\ pc = "rewrite_s1"
    /\ intra_index_map' = ScalingRewrite(intra_index_map, s1)
    /\ pc' = "rewrite_s2"
    /\ UNCHANGED <<matmul_vars, operator_vars, inputs, l, r, scaling_factor, ladder_stage3_map,
                   ladder_stage3_map_inverse, args, result, error, s1, s2>>

RewriteSecond ==
    /\ pc = "rewrite_s2"
    /\ intra_index_map' = ScalingRewrite(intra_index_map, s2)
    /\ pc' = "rewrite_once"
    /\ UNCHANGED <<matmul_vars, operator_vars, inputs, l, r, scaling_factor, ladder_stage3_map,
                   ladder_stage3_map_inverse, args, result, error, s1, s2>>

RewriteOnce ==
    /\ pc = "rewrite_once"
    /\ ladder_stage3_map' = ScalingRewrite(ladder_stage3_map, s1 * s2)
    /\ pc' = "rewritten"
    /\ UNCHANGED <<matmul_vars, operator_vars, inputs, l, r, scaling_factor, intra_index_map,
                   ladder_stage3_map_inverse, args, result, error, s1, s2>>

NextAdapter ==
    \/ RewriteFirst
    \/ RewriteSecond
    \/ RewriteOnce

SpecAdapter == InitAdapter /\ [][NextAdapter]_vars


----------------------------------------------------------------------------
(* matmul_impl.py: select_implementation and the graph builders.  func     *)
(* keeps of the built graph what tells the four shapes apart: the builder, *)
(* the shapes of the placeholders A and B, the tile and the inverse maps   *)
(* the reindex stages close over, the argument list and the attributes.    *)
(* M is an int in every call (the te.var branch of a dynamic M is left     *)
(* out), and in_dtype is a datatype the layout table knows.                *)

Layouts == {"nn", "nt", "tn"}
MatmulDims == {<<32, 32, 64>>, <<16, 48, 32>>}

InitMatmul ==
    /\ PipelineIdle
    /\ OperatorIdle
    /\ \E d \in MatmulDims, t \in Datatypes, ly \in Layouts,
          c \in BOOLEAN, b \in BOOLEAN, pa \in BOOLEAN, pb \in BOOLEAN :
          call = [M |-> d[1], N |-> d[2], K |-> d[3], in_dtype |-> t, cast |-> c,
                  with_bias |-> b, layout |-> ly, propagate_a |-> pa,
                  propagate_b |-> pb]
    /\ func = NoFunc
    /\ mpc = "select_implementation"
    /\ mm_error = "none"

\* NNSupported accepting every flag pair
NNSupported_always(pa, pb) == TRUE

\* line 370: the flag pairs layout "nn" is built for
NNSupported(pa, pb) == ~(pa \/ pb)

\* NtGraph testing propagate_a before the conjunction
NtGraph_a_first(pa, pb) ==
    IF pa THEN "matmul_nt_propagate_a"
    ELSE IF pa /\ pb THEN "matmul_nt_propagate_a_propagate_b"
    ELSE IF pb THEN "matmul_nt_propagate_b"
    ELSE "matmul_nt"

\* lines 376-389 (with lines 106-108 for the plain graph)
NtGraph(pa, pb) ==
    IF pa /\ pb THEN "matmul_nt_propagate_a_propagate_b"
    ELSE IF pa THEN "matmul_nt_propagate_a"
    ELSE IF pb THEN "matmul_nt_propagate_b"
    ELSE "matmul_nt"

\* lines 357-391, with the dispatch of matmul (lines 96-108)
SelectImplementation ==
    /\ mpc = "select_implementation"
    /\ IF call.layout = "nn"
       THEN IF NNSupported(call.propagate_a, call.propagate_b)
            THEN mpc' = "matmul_nn" /\ UNCHANGED mm_error
            ELSE mpc' = "done" /\ mm_error' = "ValueError"
       ELSE IF call.layout = "nt"
            THEN mpc' = NtGraph(call.propagate_a, call.propagate_b) /\ UNCHANGED mm_error
            ELSE mpc' = "done" /\ mm_error' = "ValueError"
    /\ UNCHANGED <<call, func, operator_vars, pipeline_vars>>

\* lines 34-46 (the same in every builder): the tensor returned last
LastOutput(cast, with_bias) ==
    IF with_bias THEN "E" ELSE IF cast THEN "D" ELSE "C"

ArgNames(cast, with_bias) ==
    IF with_bias THEN <<"A", "B", "Bias", LastOutput(cast, with_bias)>>
    ELSE <<"A", "B", LastOutput(cast, with_bias)>>

\* lines 157-159, 221-223, 285-287
MatmulTileGeometry(in_dtype) ==
    IF in_dtype = "int8" THEN <<16, 32>> ELSE <<16, 16>>

\* lines 165, 230, 289-290: the shape of a propagated operand
Tiled(rows, cols, g) == <<rows \div g[1], cols \div g[2], g[1], g[2]>>

\* lines 10-50
matmul_nn ==
    /\ mpc = "matmul_nn"
    /\ func' = [NoFunc EXCEPT !.graph = "matmul_nn",
                              !.A = <<call.M, call.K>>,
                              !.B = <<call.K, call.N>>,
                              !.args = ArgNames(call.cast, call.with_bias)]
    /\ mpc' = "done"
    /\ UNCHANGED <<call, mm_error, operator_vars, pipeline_vars>>

\* lines 53-93
matmul_nt ==
    /\ mpc = "matmul_nt"
    /\ func' = [NoFunc EXCEPT !.graph = "matmul_nt",
                              !.A = <<call.M, call.K>>,
                              !.B = <<call.N, call.K>>,
                              !.args = ArgNames(call.cast, call.with_bias)]
    /\ mpc' = "done"
    /\ UNCHANGED <<call, mm_error, operator_vars, pipeline_vars>>

\* lines 146-207
matmul_nt_propagate_a ==
    /\ mpc = "matmul_nt_propagate_a"
    /\ LET g == MatmulTileGeometry(call.in_dtype)
       IN  func' = [NoFunc EXCEPT
                      !.graph = "matmul_nt_propagate_a",
                      !.l = g[1], !.r = g[2],
                      !.inversed_a = get_propagate_map_inversed(FALSE, call.in_dtype, "A"),
                      !.A = Tiled(call.M, call.K, g),
                      !.B = <<call.N, call.K>>,
                      !.args = ArgNames(call.cast, call.with_bias),
                      !.attrs = {"smooth_a"}]
    /\ mpc' = "done"
    /\ UNCHANGED <<call, mm_error, operator_vars, pipeline_vars>>

\* lines 210-271
matmul_nt_propagate_b ==
    /\ mpc = "matmul_nt_propagate_b"
    /\ LET g == MatmulTileGeometry(call.in_dtype)
       IN  func' = [NoFunc EXCEPT
                      !.graph = "matmul_nt_propagate_b",
                      !.l = g[1], !.r = g[2],
                      !.inversed_b = get_propagate_map_inversed(TRUE, call.in_dtype, "B"),
                      !.A = <<call.M, call.K>>,
                      !.B = Tiled(call.N, call.K, g),
                      !.args = ArgNames(call.cast, call.with_bias),
                      !.attrs = {"smooth_b"}]
    /\ mpc' = "done"
    /\ UNCHANGED <<call, mm_error, operator_vars, pipeline_vars>>

\* lines 274-354
matmul_nt_propagate_a_propagate_b ==
    /\ mpc = "matmul_nt_propagate_a_propagate_b"
    /\ LET g == MatmulTileGeometry(call.in_dtype)
       IN  func' = [NoFunc EXCEPT
                      !.graph = "matmul_nt_propagate_a_propagate_b",
                      !.l = g[1], !.r = g[2],
                      !.inversed_a = get_propagate_map_inversed(FALSE, call.in_dtype, "A"),
                      !.inversed_b = get_propagate_map_inversed(TRUE, call.in_dtype, "B"),
                      !.A = Tiled(call.M, call.K, g),
                      !.B = Tiled(call.N, call.K, g),
                      !.args = ArgNames(call.cast, call.with_bias),
                      !.attrs = {"smooth_a", "smooth_b"}]
    /\ mpc' = "done"
    /\ UNCHANGED <<call, mm_error, operator_vars, pipeline_vars>>

\* lines 169-174, 233-238, 297-302, 314-319: the element of the tiled
\* placeholder that element idx of A_reindex / B_reindex reads
Reindex(tl, tr, inversed, idx) ==
    <<idx[1] \div tl, idx[2] \div tr>>
        \o inversed.at[Pos(inversed.cols, <<idx[1] % tl, idx[2] % tr>>)]

NextMatmul ==
    \/ SelectImplementation
    \/ matmul_nn
    \/ matmul_nt
    \/ matmul_nt_propagate_a
    \/ matmul_nt_propagate_b
    \/ matmul_nt_propagate_a_propagate_b

SpecMatmul == InitMatmul /\ [][NextMatmul]_vars


----------------------------------------------------------------------------
(* An operand pre-permuted by the pipeline and consumed by the matmul      *)
(* graph: the pipeline is run on operand propagate_kind of an "nt" matmul  *)
(* with stage count 2 and no quantization (the operand has M rows and N    *)
(* columns, the matmul's K), and the matmul graph is selected for the same *)
(* datatype with that operand's propagate flag set.  The two calls do not  *)
(* depend on each other and run in either order.                           *)

TiledDims == {<<32, 64>>, <<256, 256>>}

InitRoundTrip ==
    /\ pc = "start"
    /\ \E d \in TiledDims : M = d[1] /\ N = d[2]
    /\ datatype \in Datatypes
    /\ dequantize_bits = -1
    /\ storage_dtype = "int8"
    /\ propagate_kind \in Roles
    /\ transpose_matrix = (propagate_kind = "B")
    /\ transform_kind = 2
    /\ target_instruction = "nvidia-mma"
    /\ l = 0 /\ r = 0
    /\ scaling_factor = 0
    /\ intra_index_map = NoMap
    /\ ladder_stage3_map = NoMap
    /\ ladder_stage3_map_inverse = <<>>
    /\ args = <<>>
    /\ result = "none"
    /\ error = "none"
    /\ s1 = 0 /\ s2 = 0
    /\ \E pa \in BOOLEAN, pb \in BOOLEAN :
          /\ propagate_kind = "A" => pa
          /\ propagate_kind = "B" => pb
          /\ call = [M |-> M, N |-> M, K |-> N, in_dtype |-> datatype,
                     cast |-> FALSE, with_bias |-> FALSE, layout |-> "nt",
                     propagate_a |-> pa, propagate_b |-> pb]
    /\ func = NoFunc
    /\ mpc = "select_implementation"
    /\ mm_error = "none"
    /\ OperatorIdle

NextRoundTrip ==
    \/ SelectGeometry
    \/ FetchMaps
    \/ ComputeScaling
    \/ MakePlaceholder
    \/ AssertKind
    \/ Stage1
    \/ Stage2
    \/ Stage3
    \/ Finish
    \/ SelectImplementation
    \/ matmul_nt_propagate_a
    \/ matmul_nt_propagate_b
    \/ matmul_nt_propagate_a_propagate_b

SpecRoundTrip == InitRoundTrip /\ [][NextRoundTrip]_vars


----------------------------------------------------------------------------
(* operator.py: Operator._build_default_module and _build_runtime_module,  *)
(* run once by each Operator instance of one process, each in its own      *)
(* thread.  operators[o] holds the fields of instance o as __init__ leaves *)
(* them (torch_func is first assigned by a build), frames[o] the locals of *)
(* its call, and registry the instance whose closure the global function   *)
(* "tvm_callback_cuda_postproc" is bound to.  tvm.build either returns a   *)
(* module or raises; when it generates CUDA code it passes the code to     *)
(* whatever function the global name is bound to at that moment.           *)

Operators == 1 .. NumOperators
Platforms == {"CUDA", "CPU"}

\* lines 40-61
NewOperator(platform) ==
    [platform |-> platform, optimized_func |-> "None", rt_mod |-> "None",
     time_evaluator |-> "None", function_handle |-> "None",
     torch_func |-> "unset", lib |-> "None"]

NewFrame ==
    [pc |-> "schedule", rt_mod |-> "None", built_from |-> "none",
     postproc_by |-> 0, ret |-> "unset"]

InitOperator ==
    /\ PipelineIdle
    /\ MatmulIdle
    /\ operators \in [Operators -> {NewOperator(p) : p \in Platforms}]
    /\ frames = [o \in Operators |-> NewFrame]
    /\ registry = 0

\* lines 156-165: the default schedule yields an optimized module or None
ApplyDefaultSchedule(o) ==
    /\ frames[o].pc = "schedule"
    /\ \E f \in {"None", "IRModule"} :
          operators' = [operators EXCEPT ![o].optimized_func = f]
    /\ frames' = [frames EXCEPT ![o].pc = "check"]
    /\ UNCHANGED <<registry, matmul_vars, pipeline_vars>>

\* lines 88-93
CheckPlatform(o) ==
    /\ frames[o].pc = "check"
    /\ frames' =
          IF operators[o].platform = "CUDA"
          THEN IF operators[o].optimized_func = "None"
               THEN [frames EXCEPT ![o].ret = "None", ![o].pc = "returned"]
               ELSE [frames EXCEPT ![o].pc = "register"]
          ELSE [frames EXCEPT ![o].pc = "build_prim"]
    /\ UNCHANGED <<operators, registry, matmul_vars, pipeline_vars>>

\* lines 95-97: register_func with override=True rebinds the global name
RegisterCallback(o) ==
    /\ frames[o].pc = "register"
    /\ registry' = o
    /\ frames' = [frames EXCEPT ![o].pc = "build_opt"]
    /\ UNCHANGED <<operators, matmul_vars, pipeline_vars>>

\* lines 99-109: an exception of tvm.build is caught and logged
BuildOptimized(o) ==
    /\ frames[o].pc = "build_opt"
    /\ \E ok \in BOOLEAN :
          frames' =
            IF ok
            THEN [frames EXCEPT ![o].built_from = "optimized_func",
                                ![o].postproc_by = registry,
                                ![o].rt_mod = "Module",
                                ![o].pc = "setup"]
            ELSE [frames EXCEPT ![o].built_from = "optimized_func",
                                ![o].pc = "setup"]
    /\ UNCHANGED <<operators, registry, matmul_vars, pipeline_vars>>

\* lines 110-112: an exception of tvm.build leaves the method
BuildPrimary(o) ==
    /\ frames[o].pc = "build_prim"
    /\ \E ok \in BOOLEAN :
          frames' =
            IF ok
            THEN [frames EXCEPT ![o].built_from = "prim_func",
                                ![o].rt_mod = "Module",
                                ![o].pc = "setup"]
            ELSE [frames EXCEPT ![o].built_from = "prim_func",
                                ![o].ret = "raised",
                                ![o].pc = "returned"]
    /\ UNCHANGED <<operators, registry, matmul_vars, pipeline_vars>>

\* lines 115-136: the library build of a CUDA module may fail and is logged
SetupEvaluation(o) ==
    /\ frames[o].pc = "setup"
    /\ IF frames[o].rt_mod # "None"
       THEN \E lib \in IF operators[o].platform = "CUDA"
                        THEN {"CDLL", operators[o].lib}
                        ELSE {operators[o].lib} :
              operators' = [operators EXCEPT ![o].rt_mod = frames[o].rt_mod,
                                             ![o].time_evaluator = "time_evaluator",
                                             ![o].function_handle = "handle",
                                             ![o].torch_func = "torch_func",
                                             ![o].lib = lib]
       ELSE UNCHANGED operators
    /\ frames' = [frames EXCEPT ![o].pc = "return"]
    /\ UNCHANGED <<registry, matmul_vars, pipeline_vars>>

\* line 138
Return(o) ==
    /\ frames[o].pc = "return"
    /\ frames' = [frames EXCEPT ![o].ret = frames[o].rt_mod, ![o].pc = "returned"]
    /\ UNCHANGED <<operators, registry, matmul_vars, pipeline_vars>>

NextOperator ==
    \/ \E o \in Operators : ApplyDefaultSchedule(o)
    \/ \E o \in Operators : CheckPlatform(o)
    \/ \E o \in Operators : RegisterCallback(o)
    \/ \E o \in Operators : BuildOptimized(o)
    \/ \E o \in Operators : BuildPrimary(o)
    \/ \E o \in Operators : SetupEvaluation(o)
    \/ \E o \in Operators : Return(o)

SpecOperator == InitOperator /\ [][NextOperator]_vars

----------------------------------------------------------------------------
(* Properties. *)

Done == pc = "done"
Returned == pc = "done" /\ result = "IRModule"
\* the output tensor of a returned program
Out == args[2]

\* Tile-local pairs of the current tile, and the 4-D indices of the first
\* and the last tile of a tensor of the given shape.
TileLocal == Tile(l, r)
CornerTiles(shape) ==
    {t \in {0, shape[1] - 1} \X {0, shape[2] - 1} : t[1] >= 0 /\ t[2] >= 0}
CornerIndices(shape) ==
    {<<t[1], t[2], p[1], p[2]>> : t \in CornerTiles(shape), p \in Tile(shape[3], shape[4])}

\* C1: right after the geometry step the tile is (16, 32) for the byte-class
\* datatypes and (16, 16) for every other datatype, whatever M, N, the
\* quantization bits, the role, the transpose flag and the stage count are;
\* l stays 16 for the rest of the run.
C1_GeometryByDatatype ==
    /\ pc \in {"maps", "scaling"} =>
          /\ datatype \in {"int8", "e4m3_float8", "e5m2_float8"} => <<l, r>> = <<16, 32>>
          /\ datatype \in {"float16", "bfloat16"} => <<l, r>> = <<16, 16>>
    /\ pc \notin {"start", "done"} => l = 16

C1_Witness ==
    /\ pc = "scaling"
    /\ datatype = "e5m2_float8" /\ <<l, r>> = <<16, 32>>
    /\ dequantize_bits = 4 /\ transform_kind = 2

\* C2 (as amended): a run with stage count 0 never returns a program and
\* builds no stage; it ends in the assertion of line 69 exactly when the
\* steps before it succeeded (the target check, the map lookup, the
\* scaling), and otherwise in the error of the step that failed first.
C2_ZeroKindNoProgram ==
    transform_kind = 0 =>
        /\ result = "none"
        /\ Len(args) <= 1
        /\ Done =>
              /\ error \in {"AssertionError", "ValueError", "UnsupportedLayout",
                            "ZeroDivisionError"}
              /\ error = "AssertionError" <=> Len(args) = 1
              /\ error = "ValueError" <=> target_instruction # "nvidia-mma"
              /\ error = "UnsupportedLayout" <=>
                    (target_instruction = "nvidia-mma" /\ intra_index_map = NoMap)
              /\ error = "ZeroDivisionError" <=>
                    (intra_index_map # NoMap /\ scaling_factor = 0)

C2_Witness ==
    /\ Done /\ transform_kind = 0 /\ error = "AssertionError"
    /\ datatype = "int8" /\ dequantize_bits = 4 /\ scaling_factor = 2

\* C2 (original): stage count 0 fails with InvalidTransformKind (the
\* assertion) for every combination of the other inputs.
C2_ZeroKindAlwaysInvalidKind ==
    (Done /\ transform_kind = 0 /\ target_instruction = "nvidia-mma")
        => (error = "AssertionError" /\ result = "none")

\* C3: every returned program was requested with a stage count in {1,2,3}.
C3_StageCountInRange ==
    Returned => transform_kind \in {1, 2, 3}

\* C4: for stage counts 1, 2 and 3 alike the output of a returned program
\* has shape (M/l, N'/r, l, r), N' = N / scaling and r the geometry's width
\* divided by the scaling; with stage count 1 its element [i,j,ii,jj] is
\* inp[i*l+ii, j*r+jj].
C4_StageShapeAndIdentity ==
    (Returned /\ transform_kind \in {1, 2, 3}) =>
        LET tl == TileGeometry(datatype)[1]
            tr == TileGeometry(datatype)[2] \div scaling_factor
        IN  /\ Out.shape = <<M \div tl, (N \div scaling_factor) \div tr, tl, tr>>
            /\ Out.name = <<"inter_warp_permutate", "intra_warp_permutate",
                            "permutate">>[transform_kind]
            /\ transform_kind = 1 =>
                  \A x \in CornerIndices(Out.shape) :
                      Eval(Out, x) = <<"inp", <<x[1] * tl + x[3], x[2] * tr + x[4]>>>>

C4_Witness ==
    /\ Returned /\ transform_kind = 1
    /\ datatype = "float16" /\ dequantize_bits = 4 /\ storage_dtype = "int8"
    /\ M = 256 /\ Out.shape = <<16, 16, 16, 8>>

ExampleRun ==
    /\ M = 256 /\ N = 256 /\ datatype = "int8" /\ dequantize_bits = 4
    /\ storage_dtype = "int8" /\ propagate_kind = "B" /\ transpose_matrix
    /\ transform_kind = 3 /\ target_instruction = "nvidia-mma"

\* C5 (as amended): the end-to-end example succeeds with scaling factor 2,
\* adjusted r = 16 and output shape (16, 8, 16, 16).
C5_ExampleShape ==
    (ExampleRun /\ Done) =>
        /\ result = "IRModule" /\ error = "none"
        /\ scaling_factor = 2 /\ r = 16
        /\ Len(args) = 2 /\ Out.shape = <<16, 8, 16, 16>>

C5_Witness == ExampleRun /\ Returned /\ args[1].shape = <<256, 128>>

\* C5 (original): the example's output shape is (16, 16, 16, 16).
C5_ExampleShapeOriginal ==
    (ExampleRun /\ Done) =>
        /\ result = "IRModule" /\ error = "none"
        /\ scaling_factor = 2 /\ r = 16
        /\ Len(args) = 2 /\ Out.shape = <<16, 16, 16, 16>>

\* the scaling step has run
ScalingDone ==
    pc \notin {"start", "maps", "scaling"} /\ error \notin {"ValueError", "UnsupportedLayout"}

\* C6: once computed, the scaling factor is an integer >= 1: 1 with r and
\* the maps untouched when no quantization is active, and otherwise
\* (native_bits / quant_bits) * storage_bits / native_bits, still >= 1.
C6_ScalingAtLeastOne ==
    ScalingDone =>
        /\ scaling_factor >= 1
        /\ ~QuantActive =>
              /\ scaling_factor = 1
              /\ r = TileGeometry(datatype)[2]
              /\ intra_index_map.scales = <<>> /\ ladder_stage3_map.scales = <<>>
        /\ QuantActive =>
              scaling_factor = ((Bits(datatype) \div dequantize_bits)
                                   * Bits(storage_dtype)) \div Bits(datatype)

\* Some division of the scaling arithmetic of this run is not exact: in the
\* factor itself, in r or N divided by it, or in the last coordinate of a
\* rewritten map over the shrunk tile.
InexactLast(m) ==
    \E p \in TileLocal :
        LET inner == [m EXCEPT !.scales = <<>>]
        IN  MapIndices(inner, <<p[1], p[2] * scaling_factor>>)[2] % scaling_factor # 0

NonExactFactor ==
    /\ QuantActive
    /\ LET nb == Bits(datatype)
       IN  \/ nb % dequantize_bits # 0
           \/ ((nb \div dequantize_bits) * Bits(storage_dtype)) % nb # 0
           \/ scaling_factor = 0
           \/ /\ scaling_factor > 0
              /\ \/ TileGeometry(datatype)[2] % scaling_factor # 0
                 \/ N % scaling_factor # 0

NonExactScaling ==
    \/ NonExactFactor
    \/ /\ QuantActive /\ scaling_factor > 0
       /\ InexactLast(intra_index_map) \/ InexactLast(ladder_stage3_map)

\* C7: no program is returned from a run in which the scaling factor, or r
\* or N divided by it, is not exact (such a run is to end in
\* ScalingMismatch).  The clause of the mapped last coordinate is left to
\* NonExactScaling: the factor's clauses alone decide the claim.
C7_NonExactReported ==
    (Returned /\ transform_kind \in {1, 2, 3}) => ~NonExactFactor

\* Where a rewritten map of a returned program fails to be a bijection of
\* the shrunk tile, some division of the scaling arithmetic was not exact.
NonBijectiveOnlyWhenInexact ==
    (Returned /\ transform_kind \in {2, 3} /\ ~IsBijection(intra_index_map, l, r))
        => NonExactScaling

StageNames == <<"inter_warp_permutate", "intra_warp_permutate", "permutate">>

\* the tile-local pair of the input block that element (ii, jj) of a tile of
\* the output of stage k reads: the stages' index maps composed
Composed(k, p) ==
    LET p3 == IF k >= 3 THEN ladder_stage3_map_inverse[Pos(r, p)] ELSE p
    IN  IF k >= 2 THEN MapIndices(intra_index_map, p3) ELSE p3

\* C9: in a program returned for stage count 1, 2 or 3 every map applied is
\* a bijection of its tile (the intra-warp map from stage count 2 on, the
\* ladder-stage-3 map at 3, the inverse undoing it), and each element of an
\* input tile block is read by exactly one position of the matching output
\* tile.
C9_MapsAreBijections ==
    (Returned /\ transform_kind \in {1, 2, 3}) =>
        /\ transform_kind >= 2 => IsBijection(intra_index_map, l, r)
        /\ transform_kind >= 3 =>
              /\ IsBijection(ladder_stage3_map, l, r)
              /\ \A p \in TileLocal :
                    ladder_stage3_map_inverse[Pos(r, MapIndices(ladder_stage3_map, p))] = p
        /\ \A t \in CornerTiles(Out.shape) :
                  {Eval(Out, <<t[1], t[2], p[1], p[2]>>) : p \in TileLocal}
                      = {<<"inp", <<t[1] * l + p[1], t[2] * r + p[2]>>>> : p \in TileLocal}

\* C10: a returned program has exactly two arguments, the input placeholder
\* and the output of stage k, which differ, and each output element is the
\* input element at the composition of the maps of stages 1..k.
C10_TwoTensorsComposed ==
    Returned =>
        /\ Len(args) = 2
        /\ args[1] = Placeholder(<<M, N \div scaling_factor>>, "inp")
        /\ args[2] # args[1]
        /\ transform_kind \in DOMAIN StageNames
        /\ Out.name = StageNames[transform_kind]
        /\ \A x \in CornerIndices(Out.shape) :
              LET q == Composed(transform_kind, <<x[3], x[4]>>)
              IN  Eval(Out, x) = <<"inp", <<x[1] * l + q[1], x[2] * r + q[2]>>>>

\* C13: in every returned program the tile sides divide the matrix sides
\* they tile, M % l = 0 and (N / scaling) % r = 0 with the adjusted r, so
\* the output has as many elements as the input and drops no row or column.
C13_TilesDivide ==
    (Returned /\ transform_kind \in {1, 2, 3}) =>
        /\ M % l = 0
        /\ (N \div scaling_factor) % r = 0
        /\ Out.shape[1] * Out.shape[2] * Out.shape[3] * Out.shape[4]
              = M * (N \div scaling_factor)

\* C14: a datatype outside the supported set stops the run in the geometry
\* step with UnsupportedDatatype: no later step is entered with the default
\* (16, 16) tile, and no program is returned.
C14_UnknownDatatypeRejected ==
    (datatype \notin Datatypes /\ target_instruction = "nvidia-mma") =>
        /\ pc \in {"start", "done"}
        /\ <<l, r>> = <<0, 0>>
        /\ result = "none"
        /\ Done => error = "UnsupportedDatatype"

\* the stage-2 tensor the output of a three-stage program reads
Stage2Of(t) == t.arg[1]

\* C15: the output of a program returned for stage count 3 is the stage
\* "permutate" over the tile (l, adjusted r); its element [i,j,ii,jj] reads
\* stage 2 at [i,j,p,q] where (p,q) is the pair the (scaled) ladder-stage-3
\* map sends to (ii,jj), so the inverse and not the forward map is applied;
\* stage 2 at [i,j,ii,jj] is inp[i*l+a, j*r+b] with (a,b) the (scaled)
\* intra-warp map of (ii,jj); both stages keep (i,j).
C15_Stage3AppliesInverse ==
    (Returned /\ transform_kind = 3) =>
        /\ Out.name = "permutate" /\ Out.shape = StageShape
        /\ Stage2Of(Out).name = "intra_warp_permutate"
        /\ \A x \in CornerIndices(Out.shape) :
              LET y == Fcompute(Out, x)
                  ab == MapIndices(intra_index_map, <<x[3], x[4]>>)
              IN  /\ <<y[1], y[2]>> = <<x[1], x[2]>>
                  /\ <<y[3], y[4]>> \in TileLocal
                  /\ MapIndices(ladder_stage3_map, <<y[3], y[4]>>) = <<x[3], x[4]>>
                  /\ Eval(Stage2Of(Out), x)
                        = <<"inp", <<x[1] * l + ab[1], x[2] * r + ab[2]>>>>

\* a three-stage program over a scaled tile whose stage 3 reads a pair the
\* forward map would not give
C15_Witness ==
    /\ Returned /\ transform_kind = 3
    /\ datatype = "int8" /\ scaling_factor = 2 /\ <<l, r>> = <<16, 16>>
    /\ \E p \in TileLocal :
          ladder_stage3_map_inverse[Pos(r, p)] # MapIndices(ladder_stage3_map, p)
    /\ \E p \in TileLocal : MapIndices(intra_index_map, p) # p


MatmulDone == mpc = "done"
Built == mpc = "done" /\ mm_error = "none"

\* C11: a call with layout "nn" and propagate_a or propagate_b set ends in
\* the layout error (the ValueError of line 371) and builds no graph at any
\* point; layout "nn" with both flags false returns the plain nn graph, A of
\* shape (M, K) and B of shape (K, N), without attributes; a layout other
\* than "nn" and "nt" ends in the error of line 391 without a graph.
C11_LayoutErrors ==
    /\ (call.layout = "nn" /\ (call.propagate_a \/ call.propagate_b)) =>
          /\ func = NoFunc
          /\ MatmulDone => mm_error = "ValueError"
    /\ call.layout \notin {"nn", "nt"} =>
          /\ func = NoFunc
          /\ MatmulDone => mm_error = "ValueError"
    /\ (MatmulDone /\ call.layout = "nn" /\ ~call.propagate_a /\ ~call.propagate_b) =>
          /\ mm_error = "none"
          /\ func.graph = "matmul_nn"
          /\ func.A = <<call.M, call.K>> /\ func.B = <<call.K, call.N>>
          /\ func.attrs = {}

C11_Witness ==
    /\ MatmulDone /\ call.layout = "nn" /\ call.propagate_b /\ ~call.propagate_a
    /\ mm_error = "ValueError" /\ func = NoFunc

\* C12: for layout "nt" the flag pair picks exactly one of the four graphs,
\* (F,F) plain, (T,F) propagate-A, (F,T) propagate-B, (T,T) both; the
\* function carries smooth_a exactly when propagate_a and smooth_b exactly
\* when propagate_b; A is the 4-D tensor (M/l, K/r, l, r) exactly when
\* propagate_a and the 2-D (M, K) otherwise, B the 4-D (N/l, K/r, l, r)
\* exactly when propagate_b and the 2-D (N, K) otherwise.
C12_FourGraphs ==
    (MatmulDone /\ call.layout = "nt") =>
        /\ mm_error = "none"
        /\ func.graph =
              (CASE ~call.propagate_a /\ ~call.propagate_b -> "matmul_nt"
                 [] call.propagate_a /\ ~call.propagate_b -> "matmul_nt_propagate_a"
                 [] ~call.propagate_a /\ call.propagate_b -> "matmul_nt_propagate_b"
                 [] call.propagate_a /\ call.propagate_b ->
                        "matmul_nt_propagate_a_propagate_b")
        /\ ("smooth_a" \in func.attrs) <=> call.propagate_a
        /\ ("smooth_b" \in func.attrs) <=> call.propagate_b
        /\ func.attrs \subseteq {"smooth_a", "smooth_b"}
        /\ func.A = IF call.propagate_a
                    THEN <<call.M \div func.l, call.K \div func.r, func.l, func.r>>
                    ELSE <<call.M, call.K>>
        /\ func.B = IF call.propagate_b
                    THEN <<call.N \div func.l, call.K \div func.r, func.l, func.r>>
                    ELSE <<call.N, call.K>>
        /\ (call.propagate_a \/ call.propagate_b) => (func.l > 0 /\ func.r > 0)

C12_Witness ==
    /\ MatmulDone /\ call.layout = "nt" /\ call.propagate_a /\ call.propagate_b
    /\ call.in_dtype = "int8" /\ call.M = 32 /\ call.K = 64
    /\ func.A = <<2, 2, 16, 32>> /\ func.B = <<2, 2, 16, 32>>
    /\ func.attrs = {"smooth_a", "smooth_b"}

\* C18: a propagate graph tiles its operands with the geometry the
\* permutation pipeline uses for the same datatype, for each of float16,
\* bfloat16, int8, e4m3_float8 and e5m2_float8.
C18_SameGeometry ==
    (Built /\ func.attrs # {}) =>
        <<func.l, func.r>> = TileGeometry(call.in_dtype)


\* the elements of the operand in its first and last rows and columns
OperandSample ==
    ((0 .. 15) \cup (M - 16 .. M - 1)) \X ((0 .. 31) \cup (N - 32 .. N - 1))

\* the inverse map the matmul graph reads the pre-permuted operand through
OperandInversed ==
    IF propagate_kind = "A" THEN func.inversed_a ELSE func.inversed_b

\* C17: with the operand pre-permuted by the pipeline (stage count 2, no
\* quantization) and handed to the matmul graph as its tiled placeholder,
\* the reindex stage recovers the operand: element [i,j] of A_reindex
\* (B_reindex) is element [i,j] of the original operand, and is read from
\* inside the tiled tensor, for all i < rows and j < K.
C17_RoundTrip ==
    (Returned /\ Built) =>
        \A x \in OperandSample :
            LET y == Reindex(func.l, func.r, OperandInversed, x)
            IN  /\ \A n \in 1 .. 4 : y[n] >= 0 /\ y[n] < Out.shape[n]
                /\ Eval(Out, y) = <<"inp", x>>

\* C17 for the datatypes whose geometry the two programs agree on
RoundTripWhereGeometryAgrees ==
    (Returned /\ Built /\ datatype \in {"float16", "bfloat16", "int8"}) =>
        \A x \in OperandSample :
            LET y == Reindex(func.l, func.r, OperandInversed, x)
            IN  /\ \A n \in 1 .. 4 : y[n] >= 0 /\ y[n] < Out.shape[n]
                /\ Eval(Out, y) = <<"inp", x>>


\* C16: a finished call of _build_runtime_module has built from the
\* optimized function when the platform is CUDA and an optimized function
\* is available, and from the primary function otherwise (a platform other
\* than CUDA, or no optimized function); a call that returns a module has
\* set rt_mod, time_evaluator, function_handle and torch_func; a call
\* returns None only after a build that did not succeed.
C16_BuildOrFallback ==
    \A o \in Operators :
        frames[o].pc = "returned" =>
            /\ (operators[o].platform = "CUDA" /\ operators[o].optimized_func # "None")
                  => frames[o].built_from = "optimized_func"
            /\ (operators[o].platform # "CUDA" \/ operators[o].optimized_func = "None")
                  => frames[o].built_from = "prim_func"
            /\ frames[o].ret = "Module" =>
                  /\ operators[o].rt_mod = "Module"
                  /\ operators[o].time_evaluator # "None"
                  /\ operators[o].function_handle # "None"
                  /\ operators[o].torch_func = "torch_func"
            /\ frames[o].ret = "None" => frames[o].built_from # "none"

\* C16 without the case of a CUDA operator that has no optimized function
BuildOrFallbackElsewhere ==
    \A o \in Operators :
        (frames[o].pc = "returned"
            /\ ~(operators[o].platform = "CUDA" /\ operators[o].optimized_func = "None")) =>
            /\ (operators[o].platform = "CUDA") => frames[o].built_from = "optimized_func"
            /\ (operators[o].platform # "CUDA") => frames[o].built_from = "prim_func"
            /\ frames[o].ret = "Module" =>
                  /\ operators[o].rt_mod = "Module"
                  /\ operators[o].time_evaluator # "None"
                  /\ operators[o].function_handle # "None"
                  /\ operators[o].torch_func = "torch_func"
            /\ frames[o].ret = "None" => frames[o].built_from # "none"

\* C19: whenever the tvm.build of an operator has passed its code to the
\* function bound to "tvm_callback_cuda_postproc", that function was the
\* operator's own closure, calling its own post_process, however the
\* builds of the operators interleave.
C19_OwnPostProcess ==
    \A o \in Operators : frames[o].postproc_by \in {0, o}


\* the index tuples a repeatedly rewritten map is evaluated on
AdapterIndices == (0 .. 15) \X (0 .. MaxLast)

\* C8: the map rewritten by s1 and then by s2 returns, on every index
\* tuple, what the map rewritten once by s1 * s2 returns.
C8_ScalingComposes ==
    pc = "rewritten" =>
        \A x \in AdapterIndices :
            MapIndices(intra_index_map, x) = MapIndices(ladder_stage3_map, x)

C8_Witness ==
    /\ pc = "rewritten" /\ s1 = 2 /\ s2 = 3
    /\ intra_index_map = [name |-> "stage3_16x32", scales |-> <<2, 3>>]
    /\ ladder_stage3_map = [name |-> "stage3_16x32", scales |-> <<6>>]
    /\ MapIndices(intra_index_map, <<5, 3>>) # BaseMap("stage3_16x32", <<5, 3>>)

====
